---- MODULE Spec2Model ----
(***************************************************************************)
(* Model of OilFiltrationModel (src/model.py): one-dimensional two-phase   *)
(* (water-oil) displacement solved by an explicit upwind scheme, with and  *)
(* without capillary diffusion.                                            *)
(*                                                                         *)
(* Arithmetic.  The program computes in IEEE doubles.  TLC has 32-bit      *)
(* integers only, so every real quantity v is represented by the integer   *)
(* trunc(v * Q), Q = 10^7 (seven decimal digits), and every multiplication *)
(* and division is a separate operation that truncates its result toward   *)
(* zero, as every floating-point operation of the program rounds its own   *)
(* result.  Products are formed by MulDiv without overflowing 32 bits;     *)
(* magnitudes above Sat (about 107.3) saturate at Sat.                     *)
(***************************************************************************)
EXTENDS Integers, Sequences, FiniteSets, TLC

\* ------------------------------------------------------------ arithmetic

\* Fixed-point scale: the integer Q represents 1.0.
Q == 10 ^ 7

\* Largest magnitude a product or quotient may take (then it saturates).
Sat == 2 ^ 30 - 1

Abs(a) == IF a < 0 THEN -a ELSE a

Sign(a) == IF a < 0 THEN -1 ELSE 1

Min2(a, b) == IF a <= b THEN a ELSE b

Max2(a, b) == IF a >= b THEN a ELSE b

\* <<a * b \div c, a * b % c>> for 0 <= a < c, b >= 0, 31 * c < 2^31, taking
\* b four bits at a time.
RECURSIVE MulLow(_, _, _)
MulLow(a, b, c) ==
    IF b = 0 THEN <<0, 0>>
    ELSE LET p == MulLow(a, b \div 16, c)
             s == 16 * p[2] + a * (b % 16)
         IN  <<16 * p[1] + s \div c, s % c>>

\* <<min(a * b \div c, Sat), a * b % c>> for a, b in 0..Sat and c > 0.
MulDivNat(a, b, c) ==
    LET ah == a \div c
        lo == MulLow(a % c, b, c)
        hi == IF ah = 0 \/ b = 0 THEN 0
              ELSE IF b > Sat \div ah THEN Sat ELSE ah * b
    IN  <<Min2(hi + lo[1], Sat), lo[2]>>

\* a * b / c truncated toward zero, saturating at +-Sat (c > 0).
MulDiv(a, b, c) == Sign(a) * Sign(b) * MulDivNat(Abs(a), Abs(b), c)[1]

\* The product and the quotient of two fixed-point numbers.
FMul(a, b) == MulDiv(a, b, Q)

FDiv(a, b) == Sign(b) * MulDiv(a, Q, Abs(b))

\* The fixed-point number num / den.
Frac(num, den) == (num * Q) \div den

\* --------------------------------------------------------- model parameters
\* (OilFiltrationModel.__init__)

\* Number of grid cells.  The program has 100; the model shortens the grid.
nx == 4

\* Reservoir length.  The program has 100.0 m for 100 cells; the model shortens
\* the reservoir with the grid, so that the spacing length / nx stays 1.0 m.
length == nx * Q

porosity == Frac(2, 10)

mu_oil == 5 * Q

mu_water == 1 * Q

initial_water_saturation == Frac(2, 10)

residual_oil_saturation == Frac(2, 10)

\* Water saturation held at the inlet (node 0).
injection_saturation == Frac(8, 10)

dx == length \div nx

\* Simulated days.  The program has 100; the model shortens the horizon.
days == 1

dt == Frac(5, 100)

\* int(days / dt) + 1
nt == FDiv(days * Q, dt) \div Q + 1

\* np.linspace(0, days, nt)[n]
t(n) == (days * Q * n) \div (nt - 1)

entry_pressure == 1 * Q

wettability_factor == Frac(6, 10)

Nodes == 0 .. nx

Steps == 0 .. nt - 1

\* ------------------------------------------------------- closure relations

relative_permeability_water(Sw) ==
    LET Swc == initial_water_saturation
        Sor == residual_oil_saturation
    IN  IF Sw <= Swc THEN 0
        ELSE IF Sw >= Q - Sor THEN Q
        ELSE LET Swn == FDiv(Sw - Swc, Q - Swc - Sor)
             IN  FMul(FMul(Swn, Swn), Swn)

relative_permeability_oil(Sw) ==
    LET Swc == initial_water_saturation
        Sor == residual_oil_saturation
    IN  IF Sw >= Q - Sor THEN 0
        ELSE IF Sw <= Swc THEN Q
        ELSE LET Son == FDiv(Q - Sw - Sor, Q - Swc - Sor)
             IN  FMul(Son, Son)

\* 1 / (1e-10 * Q): the term 1e-10 added to kro / mu_oil is one
\* MobilityEpsInv-th of the fixed-point unit.
MobilityEpsInv == (10 ^ 5) \div (Q \div 10 ^ 5)

\* fractional_flow with the two relative permeabilities exchanged.
fractional_flow_swapped(Sw) ==
    LET krw == relative_permeability_oil(Sw)
        kro == relative_permeability_water(Sw)
        a == FDiv(krw, mu_water)
        b == FDiv(kro, mu_oil)
        p == MulDivNat(a, Q, a + b)
    IN  IF a = 0 THEN 0
        ELSE IF p[2] <= (p[1] - 1) \div MobilityEpsInv THEN p[1] - 1
        ELSE p[1]

\* M = (krw / mu_water) / (kro / mu_oil + 1e-10); return M / (1 + M).
\* M itself reaches 1e10 and has no fixed-point representation, so the result
\* M / (1 + M) = a / (a + b + 1e-10), a = krw / mu_water, b = kro / mu_oil, is
\* computed directly and truncated exactly: with Q * a = q * (a + b) + r, the
\* quotient by (a + b + 1e-10) is q - 1 when r * MobilityEpsInv < q and q
\* otherwise (a + b >= Q / MobilityEpsInv for every saturation).
fractional_flow(Sw) ==
    LET krw == relative_permeability_water(Sw)
        kro == relative_permeability_oil(Sw)
        a == FDiv(krw, mu_water)
        b == FDiv(kro, mu_oil)
        p == MulDivNat(a, Q, a + b)
    IN  IF a = 0 THEN 0
        ELSE IF p[2] <= (p[1] - 1) \div MobilityEpsInv THEN p[1] - 1
        ELSE p[1]

\* The largest u in lo..hi with u ** 3 <= y (bisection).
RECURSIVE CubeRoot(_, _, _)
CubeRoot(lo, hi, y) ==
    IF lo >= hi THEN lo
    ELSE LET mid == (lo + hi + 1) \div 2
         IN  IF FMul(FMul(mid, mid), mid) <= y
             THEN CubeRoot(mid, hi, y)
             ELSE CubeRoot(lo, mid - 1, y)

\* Se ** (-1.0 / pore_distribution_index) for the program's index 1.5, that
\* is Se ** (-2 / 3) = 1 / (cube root of Se) ** 2, 0 < Se <= 1.
PowNegInvLambda(Se) ==
    LET u == CubeRoot(1, Q, Se)
    IN  FDiv(Q, FMul(u, u))

capillary_pressure(Sw) ==
    LET Swc == initial_water_saturation
        Sor == residual_oil_saturation
        epsilon == Frac(1, 100)
    IN  IF Sw <= Swc + epsilon
        THEN LET alpha == FDiv(Sw - Swc, epsilon)
                 max_pc == FMul(entry_pressure, 3 * Q)
             IN  FMul(max_pc, Q - alpha) + FMul(entry_pressure, alpha)
        ELSE IF Sw >= Q - Sor - epsilon
        THEN LET alpha == FDiv(Q - Sor - Sw, epsilon)
             IN  FMul(FMul(entry_pressure, Frac(5, 100)), alpha)
        ELSE LET Se == FDiv(Sw - Swc, Q - Swc - Sor)
                 pc == FMul(entry_pressure, PowNegInvLambda(Se))
             IN  FMul(pc, 2 * Q - wettability_factor)

\* max_diffusion with the factor 4.5 in place of 0.45.
max_diffusion_tenfold == FDiv(FMul(Frac(45, 10), FMul(dx, dx)), dt)

\* 0.45 * dx ** 2 / dt
max_diffusion == FDiv(FMul(Frac(45, 100), FMul(dx, dx)), dt)

\* df_dS of diffusion_coefficient: the central difference of fractional_flow
\* with step delta = 1e-4 about Sw clamped to [0.01, 0.99].
df_dS(Sw0) ==
    LET Sw == Max2(Min2(Sw0, Frac(99, 100)), Frac(1, 100))
        delta == Q \div 10 ^ 4
        Sw_minus == Max2(Sw - delta, Frac(1, 100))
        Sw_plus == Min2(Sw + delta, Frac(99, 100))
    IN  FDiv(fractional_flow(Sw_plus) - fractional_flow(Sw_minus), 2 * delta)

\* D = -k / (porosity * mu) * df_dS * dpc_dS of diffusion_coefficient, before
\* the clamp.  dpc_dS = (pc(Sw_plus) - pc(Sw_minus)) / (2 * delta) exceeds the
\* fixed-point range where capillary_pressure jumps, so the last product is
\* formed together with the quotient by 2 * delta in one saturating MulDiv.
raw_D(Sw0) ==
    LET Sw == Max2(Min2(Sw0, Frac(99, 100)), Frac(1, 100))
        delta == Q \div 10 ^ 4
        Sw_minus == Max2(Sw - delta, Frac(1, 100))
        Sw_plus == Min2(Sw + delta, Frac(99, 100))
        dpc == capillary_pressure(Sw_plus) - capillary_pressure(Sw_minus)
        k == 1 * Q
        mu == Max2(FMul(mu_water, Sw) + FMul(mu_oil, Q - Sw), Frac(1, 10))
    IN  MulDiv(FMul(FDiv(-k, FMul(porosity, mu)), df_dS(Sw0)), dpc, 2 * delta)

\* diffusion_coefficient without the absolute value of a negative D.
diffusion_coefficient_signed(Sw) == Min2(FMul(raw_D(Sw), Q), max_diffusion)

diffusion_coefficient(Sw) ==
    LET D == raw_D(Sw)
    IN  IF D < 0 THEN Min2(FMul(Abs(D), Q), max_diffusion)
        ELSE Min2(FMul(D, Q), max_diffusion)

\* ------------------------------------------------------------------ state

VARIABLES
    Sw_with_cap,               \* saturation field [time step][node], capillary
    Sw_without_cap,            \* saturation field [time step][node], advective
    n_cap,                     \* run_simulation, first loop: time index n
    todo_cap,                  \* ... nodes its inner loop has yet to update
    n_nocap,                   \* run_simulation, second loop: time index n
    todo_nocap,                \* ... nodes its inner loop has yet to update
    recovery_with_cap,         \* calculate_recovery_factor's results
    recovery_without_cap,
    breakthrough_with_cap,     \* get_breakthrough_time's results
    breakthrough_without_cap,
    returned,                  \* the queries that have returned
    arg,                       \* saturations handed to a closure relation
    result                     \* what the closure relation returned

vars == <<Sw_with_cap, Sw_without_cap, n_cap, todo_cap, n_nocap, todo_nocap,
          recovery_with_cap, recovery_without_cap, breakthrough_with_cap,
          breakthrough_without_cap, returned, arg, result>>

fields == <<Sw_with_cap, Sw_without_cap, n_cap, todo_cap, n_nocap, todo_nocap>>

queries == <<recovery_with_cap, recovery_without_cap, breakthrough_with_cap,
             breakthrough_without_cap, returned>>

closures == <<arg, result>>

\* A numpy index: a negative index counts from the end of the row.
PyIndex(j) == IF j < 0 THEN nx + 1 + j ELSE j

\* The inner loop over range(0, self.nx).
InteriorNodesFromZero == 0 .. nx - 1

\* range(1, self.nx)
InteriorNodes == 1 .. nx - 1

\* np.ones((nt, nx + 1)) * initial_water_saturation, then [:, 0] = 0.8
InitField ==
    [n \in Steps |-> [i \in Nodes |->
        IF i = 0 THEN injection_saturation ELSE initial_water_saturation]]

Min(S) == CHOOSE a \in S : \A b \in S : a <= b

\* ------------------------------------------------------- run_simulation

\* UpdateWithCap reading the upstream node from the row being written.
UpdateWithCapInPlace(S, n, i) ==
    LET f_i == fractional_flow(S[n][i])
        f_im1 == fractional_flow(S[n + 1][PyIndex(i - 1)])
        D_i == diffusion_coefficient(S[n][i])
    IN  S[n][i]
        - FMul(FDiv(dt, dx), f_i - f_im1)
        + FMul(FMul(FDiv(dt, FMul(dx, dx)), D_i),
               S[n][i + 1] - 2 * S[n][i] + S[n + 1][PyIndex(i - 1)])

\* The value the first loop assigns to Sw_with_cap[n + 1, i].
UpdateWithCap(S, n, i) ==
    LET f_i == fractional_flow(S[n][i])
        f_im1 == fractional_flow(S[n][PyIndex(i - 1)])
        D_i == diffusion_coefficient(S[n][i])
    IN  S[n][i]
        - FMul(FDiv(dt, dx), f_i - f_im1)
        + FMul(FMul(FDiv(dt, FMul(dx, dx)), D_i),
               S[n][i + 1] - 2 * S[n][i] + S[n][PyIndex(i - 1)])

\* UpdateWithoutCap with the sign of the convective term reversed.
UpdateWithoutCapReversed(S, n, i) ==
    LET f_i == fractional_flow(S[n][i])
        f_im1 == fractional_flow(S[n][PyIndex(i - 1)])
    IN  S[n][i] + FMul(FDiv(dt, dx), f_i - f_im1)

\* UpdateWithoutCap taking the upstream flux from the capillary field.
UpdateWithoutCapCross(S, n, i) ==
    LET f_i == fractional_flow(S[n][i])
        f_im1 == fractional_flow(Sw_with_cap[n][PyIndex(i - 1)])
    IN  S[n][i] - FMul(FDiv(dt, dx), f_i - f_im1)

\* The value the second loop assigns to Sw_without_cap[n + 1, i].
UpdateWithoutCap(S, n, i) ==
    LET f_i == fractional_flow(S[n][i])
        f_im1 == fractional_flow(S[n][PyIndex(i - 1)])
    IN  S[n][i] - FMul(FDiv(dt, dx), f_i - f_im1)

\* BoundaryValue taken from the previous row.
BoundaryValuePreviousRow(S, n) == S[n][PyIndex(-2)]

\* The value assigned to the right boundary: S[n + 1, -1] = S[n + 1, -2].
BoundaryValue(S, n) == S[n + 1][PyIndex(-2)]

\* One iteration of the inner loop of the first (capillary) pass.
CapInterior(i) ==
    /\ n_cap < nt - 1
    /\ i \in todo_cap
    /\ Sw_with_cap' = [Sw_with_cap EXCEPT
           ![n_cap + 1][i] = UpdateWithCap(Sw_with_cap, n_cap, i)]
    /\ todo_cap' = todo_cap \ {i}
    /\ UNCHANGED <<Sw_without_cap, n_cap, n_nocap, todo_nocap>>
    /\ UNCHANGED <<queries, closures>>

\* The end of a time step of the first pass: the right boundary, then n + 1.
CapBoundary ==
    /\ n_cap < nt - 1
    /\ todo_cap = {}
    /\ Sw_with_cap' = [Sw_with_cap EXCEPT
           ![n_cap + 1][PyIndex(-1)] = BoundaryValue(Sw_with_cap, n_cap)]
    /\ n_cap' = n_cap + 1
    /\ todo_cap' = InteriorNodes
    /\ UNCHANGED <<Sw_without_cap, n_nocap, todo_nocap>>
    /\ UNCHANGED <<queries, closures>>

\* One iteration of the inner loop of the second (advective) pass.
NoCapInterior(i) ==
    /\ n_nocap < nt - 1
    /\ i \in todo_nocap
    /\ Sw_without_cap' = [Sw_without_cap EXCEPT
           ![n_nocap + 1][i] = UpdateWithoutCap(Sw_without_cap, n_nocap, i)]
    /\ todo_nocap' = todo_nocap \ {i}
    /\ UNCHANGED <<Sw_with_cap, n_cap, todo_cap, n_nocap>>
    /\ UNCHANGED <<queries, closures>>

\* The end of a time step of the second pass.
NoCapBoundary ==
    /\ n_nocap < nt - 1
    /\ todo_nocap = {}
    /\ Sw_without_cap' = [Sw_without_cap EXCEPT
           ![n_nocap + 1][PyIndex(-1)] = BoundaryValue(Sw_without_cap, n_nocap)]
    /\ n_nocap' = n_nocap + 1
    /\ todo_nocap' = InteriorNodes
    /\ UNCHANGED <<Sw_with_cap, n_cap, todo_cap>>
    /\ UNCHANGED <<queries, closures>>

CapDone == n_cap = nt - 1

NoCapDone == n_nocap = nt - 1

\* run_simulation has returned.
Done == CapDone /\ NoCapDone

\* ---------------------------------------------------- post-processing

RECURSIVE SumTo(_, _)
SumTo(row, j) == IF j < 0 THEN 0 ELSE row[j] + SumTo(row, j - 1)

\* np.mean of a row
Mean(row) == SumTo(row, nx) \div (nx + 1)

\* One of the two sequences calculate_recovery_factor fills.
RecoveryOf(S) ==
    LET initial_oil == Q - initial_water_saturation
    IN  [n \in Steps |->
            LET avg_oil == Q - Mean(S[n])
            IN  FDiv(initial_oil - avg_oil, initial_oil)]

calculate_recovery_factor ==
    /\ "recovery" \notin returned
    /\ recovery_with_cap' = RecoveryOf(Sw_with_cap)
    /\ recovery_without_cap' = RecoveryOf(Sw_without_cap)
    /\ returned' = returned \cup {"recovery"}
    /\ UNCHANGED <<breakthrough_with_cap, breakthrough_without_cap>>
    /\ UNCHANGED <<fields, closures>>

threshold == initial_water_saturation + Frac(5, 100)

\* BreakthroughFrom with >= in place of >.
RECURSIVE BreakthroughFromAtLeast(_, _)
BreakthroughFromAtLeast(S, n) ==
    IF n >= nt THEN days * Q
    ELSE IF S[n][PyIndex(-1)] >= threshold THEN t(n)
    ELSE BreakthroughFromAtLeast(S, n + 1)

\* One of the two loops of get_breakthrough_time, from time index n on.
RECURSIVE BreakthroughFrom(_, _)
BreakthroughFrom(S, n) ==
    IF n >= nt THEN days * Q
    ELSE IF S[n][PyIndex(-1)] > threshold THEN t(n)
    ELSE BreakthroughFrom(S, n + 1)

get_breakthrough_time ==
    /\ "breakthrough" \notin returned
    /\ breakthrough_with_cap' = BreakthroughFrom(Sw_with_cap, 0)
    /\ breakthrough_without_cap' = BreakthroughFrom(Sw_without_cap, 0)
    /\ returned' = returned \cup {"breakthrough"}
    /\ UNCHANGED <<recovery_with_cap, recovery_without_cap>>
    /\ UNCHANGED <<fields, closures>>

\* ------------------------------------------- the program (main.py: main)

InitQueries ==
    /\ recovery_with_cap = [n \in Steps |-> 0]
    /\ recovery_without_cap = [n \in Steps |-> 0]
    /\ breakthrough_with_cap = days * Q
    /\ breakthrough_without_cap = days * Q
    /\ returned = {}

InitClosures ==
    /\ arg = <<0, 0>>
    /\ result = [fn |-> "none", v1 |-> 0, v2 |-> 0]

InitFields ==
    /\ Sw_with_cap = InitField
    /\ Sw_without_cap = InitField
    /\ n_cap = 0
    /\ todo_cap = InteriorNodes
    /\ n_nocap = 0
    /\ todo_nocap = InteriorNodes

Init == InitFields /\ InitQueries /\ InitClosures

\* The inner loops visit the nodes from left to right; the second pass starts
\* when the first has ended; the queries follow run_simulation.
SeqCapInterior == \E i \in todo_cap : i = Min(todo_cap) /\ CapInterior(i)

SeqCapBoundary == CapBoundary

SeqNoCapInterior ==
    CapDone /\ \E i \in todo_nocap : i = Min(todo_nocap) /\ NoCapInterior(i)

SeqNoCapBoundary == CapDone /\ NoCapBoundary

QueryRecovery == Done /\ calculate_recovery_factor

QueryBreakthrough == Done /\ get_breakthrough_time

Next ==
    \/ SeqCapInterior
    \/ SeqCapBoundary
    \/ SeqNoCapInterior
    \/ SeqNoCapBoundary
    \/ QueryRecovery
    \/ QueryBreakthrough

Spec == Init /\ [][Next]_vars

\* --------------------- the inner loop's iterations taken in any order

AnyCapInterior == \E i \in todo_cap : CapInterior(i)

AnyNoCapInterior == CapDone /\ \E i \in todo_nocap : NoCapInterior(i)

NextAnyOrder ==
    \/ AnyCapInterior
    \/ SeqCapBoundary
    \/ AnyNoCapInterior
    \/ SeqNoCapBoundary

SpecAnyOrder == Init /\ [][NextAnyOrder]_vars

\* ------------------------- the sequential loops as functions of a field

\* The inner loop of the first pass at time index n, from node i on.
RECURSIVE LoopCap(_, _, _)
LoopCap(S, n, i) ==
    IF i >= nx THEN S
    ELSE LoopCap([S EXCEPT ![n + 1][i] = UpdateWithCap(S, n, i)], n, i + 1)

\* The inner loop of the second pass at time index n, from node i on.
RECURSIVE LoopNoCap(_, _, _)
LoopNoCap(S, n, i) ==
    IF i >= nx THEN S
    ELSE LoopNoCap([S EXCEPT ![n + 1][i] = UpdateWithoutCap(S, n, i)], n, i + 1)

\* The rows run_simulation's first pass leaves, as the sequence of rows
\* 0 .. nt - 1, from the rows up to some time index: each time step runs the
\* inner loop on the last row and the row as constructed, sets the right
\* boundary and yields the next row.
RECURSIVE RowsCap(_)
RowsCap(rows) ==
    IF Len(rows) >= nt THEN rows
    ELSE LET n == Len(rows) - 1
             S == [m \in {n, n + 1} |->
                      IF m = n THEN rows[n + 1] ELSE InitField[n + 1]]
             A == LoopCap(S, n, 1)
         IN  RowsCap(Append(rows,
                 [A[n + 1] EXCEPT ![PyIndex(-1)] = BoundaryValue(A, n)]))

\* The same for the second pass.
RECURSIVE RowsNoCap(_)
RowsNoCap(rows) ==
    IF Len(rows) >= nt THEN rows
    ELSE LET n == Len(rows) - 1
             S == [m \in {n, n + 1} |->
                      IF m = n THEN rows[n + 1] ELSE InitField[n + 1]]
             A == LoopNoCap(S, n, 1)
         IN  RowsNoCap(Append(rows,
                 [A[n + 1] EXCEPT ![PyIndex(-1)] = BoundaryValue(A, n)]))

\* The fields run_simulation leaves when it runs as written (row n is the
\* element n + 1 of the sequence).
SequentialWithCap == RowsCap(<<InitField[0]>>)

SequentialWithoutCap == RowsNoCap(<<InitField[0]>>)

\* ------------------------------------- the two passes run side by side

\* One whole time step of the first pass: the inner loop and the boundary.
CapTimeStep ==
    /\ n_cap < nt - 1
    /\ LET A == LoopCap(Sw_with_cap, n_cap, 1)
       IN  Sw_with_cap' = [A EXCEPT
               ![n_cap + 1][PyIndex(-1)] = BoundaryValue(A, n_cap)]
    /\ n_cap' = n_cap + 1
    /\ UNCHANGED <<Sw_without_cap, todo_cap, n_nocap, todo_nocap>>
    /\ UNCHANGED <<queries, closures>>

\* One whole time step of the second pass.
NoCapTimeStep ==
    /\ n_nocap < nt - 1
    /\ LET A == LoopNoCap(Sw_without_cap, n_nocap, 1)
       IN  Sw_without_cap' = [A EXCEPT
               ![n_nocap + 1][PyIndex(-1)] = BoundaryValue(A, n_nocap)]
    /\ n_nocap' = n_nocap + 1
    /\ UNCHANGED <<Sw_with_cap, n_cap, todo_cap, todo_nocap>>
    /\ UNCHANGED <<queries, closures>>

NextInterleaved ==
    \/ CapTimeStep
    \/ NoCapTimeStep

SpecInterleaved == Init /\ [][NextInterleaved]_vars

\* ------------------------------------ the closure relations on their own

\* Number of intervals of the saturation grid the closure relations are
\* evaluated on.
GridN == 20

\* The grid, and the saturations where a closure relation changes branch with
\* their neighbours.
Samples ==
    LET Swc == initial_water_saturation
        Sor == residual_oil_saturation
        epsilon == Frac(1, 100)
        delta == Q \div 10 ^ 4
    IN  {(k * Q) \div GridN : k \in 0 .. GridN}
        \cup {Swc, Swc + 1, Swc + delta, Swc + epsilon, Swc + epsilon + 1,
              Swc + epsilon + delta, Q - Sor - epsilon - 1, Q - Sor - epsilon,
              Q - Sor - delta, Q - Sor - 1, Q - Sor, Frac(1, 100),
              Frac(99, 100)}

InitClosureCall ==
    /\ arg \in Samples \X Samples
    /\ result = [fn |-> "none", v1 |-> 0, v2 |-> 0]

CallFractionalFlow ==
    /\ result.fn = "none"
    /\ result' = [fn |-> "fractional_flow", v1 |-> fractional_flow(arg[1]),
                  v2 |-> fractional_flow(arg[2])]
    /\ UNCHANGED <<arg, fields, queries>>

CallCapillaryPressure ==
    /\ result.fn = "none"
    /\ result' = [fn |-> "capillary_pressure",
                  v1 |-> capillary_pressure(arg[1]),
                  v2 |-> capillary_pressure(arg[2])]
    /\ UNCHANGED <<arg, fields, queries>>

CallDiffusionCoefficient ==
    /\ result.fn = "none"
    /\ result' = [fn |-> "diffusion_coefficient",
                  v1 |-> diffusion_coefficient(arg[1]),
                  v2 |-> diffusion_coefficient(arg[2])]
    /\ UNCHANGED <<arg, fields, queries>>

NextClosures ==
    \/ CallFractionalFlow
    \/ CallCapillaryPressure
    \/ CallDiffusionCoefficient

InitClosureSpec == InitFields /\ InitQueries /\ InitClosureCall

SpecClosures == InitClosureSpec /\ [][NextClosures]_vars

\* --------------------------- get_breakthrough_time on its own, on fields
\* whose outlet column is given

\* An outlet column at lo, but above the threshold at the time indices
\* k .. k + w - 1.
OutletColumn(lo, k, w) ==
    [n \in Steps |-> IF n >= k /\ n < k + w THEN threshold + 1 ELSE lo]

WithOutlet(col) == [n \in Steps |-> [InitField[n] EXCEPT ![nx] = col[n]]]

InitOutlets ==
    /\ \E lo \in {initial_water_saturation, threshold} :
       \E k1 \in 0 .. nt, k2 \in 0 .. nt, w1 \in {1, nt}, w2 \in {1, nt} :
           /\ Sw_with_cap = WithOutlet(OutletColumn(lo, k1, w1))
           /\ Sw_without_cap = WithOutlet(OutletColumn(lo, k2, w2))
    /\ n_cap = nt - 1
    /\ todo_cap = InteriorNodes
    /\ n_nocap = nt - 1
    /\ todo_nocap = InteriorNodes

NextBreakthrough == get_breakthrough_time

InitBreakthroughSpec == InitOutlets /\ InitQueries /\ InitClosures

SpecBreakthrough == InitBreakthroughSpec /\ [][NextBreakthrough]_vars

\* ----------------------------------------------------------------- claims

\* The convective CFL condition dt / dx * max |df/dS| <= 1 on the grid of
\* saturations.
CFLSatisfied == \A Sw \in Samples : FMul(FDiv(dt, dx), Abs(df_dS(Sw))) <= Q

\* C1.  Mass-boundedness: every value of both saturation fields, at every
\* time index and node, lies in [0, 1] in every state run_simulation reaches
\* (the grid satisfies the CFL condition).
C1_MassBounded ==
    \A n \in Steps : \A i \in Nodes :
        /\ 0 <= Sw_with_cap[n][i] /\ Sw_with_cap[n][i] <= Q
        /\ 0 <= Sw_without_cap[n][i] /\ Sw_without_cap[n][i] <= Q

\* run_simulation has returned, the flood has reached the last interior node
\* in both fields, and the grid satisfies the CFL condition.
C1_Witness ==
    /\ Done
    /\ Sw_with_cap[nt - 1][nx - 1] > initial_water_saturation
    /\ Sw_without_cap[nt - 1][nx - 1] > initial_water_saturation
    /\ CFLSatisfied

\* C2.  Left boundary: after construction and after every step of
\* run_simulation, node 0 of every row of both fields holds the injection
\* saturation 0.8.
C2_LeftBoundary ==
    \A n \in Steps :
        /\ Sw_with_cap[n][0] = Frac(8, 10)
        /\ Sw_without_cap[n][0] = Frac(8, 10)

\* run_simulation has returned and has changed node 1 of the last row of both
\* fields, next to the boundary node it left alone.
C2_Witness ==
    /\ Done
    /\ Sw_with_cap[nt - 1][1] # initial_water_saturation
    /\ Sw_without_cap[nt - 1][1] # initial_water_saturation
    /\ Sw_with_cap[nt - 1][0] = Frac(8, 10)

\* C3.  Right boundary: in every row n >= 1 a pass has completed (all of them
\* once run_simulation has returned), node nx equals node nx - 1, so the
\* boundary value was copied after the interior nodes of its row were updated.
C3_RightBoundary ==
    /\ \A n \in 1 .. n_cap : Sw_with_cap[n][nx] = Sw_with_cap[n][nx - 1]
    /\ \A n \in 1 .. n_nocap :
           Sw_without_cap[n][nx] = Sw_without_cap[n][nx - 1]

\* run_simulation has returned and the outlet of the last row differs from the
\* outlet of the row before it and from its initial value, in both fields.
C3_Witness ==
    /\ Done
    /\ Sw_with_cap[nt - 1][nx] # Sw_with_cap[nt - 2][nx]
    /\ Sw_with_cap[nt - 1][nx] # initial_water_saturation
    /\ Sw_without_cap[nt - 1][nx] # Sw_without_cap[nt - 2][nx]
    /\ Sw_without_cap[nt - 1][nx] # initial_water_saturation

\* The time get_breakthrough_time is to return for a field: t[n*] for the
\* smallest time index n* whose outlet saturation is strictly above
\* initial_water_saturation + 0.05, the simulated duration when there is none.
FirstCrossingTime(S) ==
    LET above == {n \in Steps :
                     S[n][nx] > initial_water_saturation + Frac(5, 100)}
    IN  IF above = {} THEN days * Q
        ELSE t(CHOOSE n \in above : \A m \in above : n <= m)

\* C4.  get_breakthrough_time returns, for each field independently, the time
\* of the first time index at which the outlet saturation is strictly above
\* initial_water_saturation + 0.05, and the simulated duration if there is
\* none.
C4_BreakthroughTime ==
    "breakthrough" \in returned =>
        /\ breakthrough_with_cap = FirstCrossingTime(Sw_with_cap)
        /\ breakthrough_without_cap = FirstCrossingTime(Sw_without_cap)

\* get_breakthrough_time has returned the duration for a capillary field whose
\* outlet only touches the threshold, and t[3] for an advective field whose
\* outlet is above the threshold at time index 3 alone.
C4_Witness ==
    /\ "breakthrough" \in returned
    /\ \A n \in Steps : Sw_with_cap[n][nx] = threshold
    /\ breakthrough_with_cap = days * Q
    /\ \A n \in Steps : (Sw_without_cap[n][nx] > threshold) <=> (n = 3)
    /\ breakthrough_without_cap = t(3)
    /\ breakthrough_without_cap < days * Q

\* C5.  For the advective field run_simulation produced, the recovery factors
\* calculate_recovery_factor returns never decrease with the time index and
\* lie in [0, 1].
C5_RecoveryMonotone ==
    "recovery" \in returned =>
        /\ \A n \in 0 .. nt - 2 :
               recovery_without_cap[n + 1] >= recovery_without_cap[n]
        /\ \A n \in Steps :
               0 <= recovery_without_cap[n] /\ recovery_without_cap[n] <= Q

\* calculate_recovery_factor has returned a sequence that starts above 0 and
\* rises in its first and in its last step.
C5_Witness ==
    /\ "recovery" \in returned
    /\ recovery_without_cap[0] > 0
    /\ recovery_without_cap[1] > recovery_without_cap[0]
    /\ recovery_without_cap[nt - 1] > recovery_without_cap[nt - 2]

\* C6.  diffusion_coefficient returns a value D with 0 <= D and
\* D * dt <= 0.45 * dx ** 2, for every saturation in [0, 1].
C6_DiffusionClamped ==
    result.fn = "diffusion_coefficient" =>
        /\ 0 <= result.v1 /\ 0 <= result.v2
        /\ FMul(result.v1, dt) <= FMul(Frac(45, 100), FMul(dx, dx))
        /\ FMul(result.v2, dt) <= FMul(Frac(45, 100), FMul(dx, dx))

\* diffusion_coefficient has returned the stability bound for a saturation at
\* which the raw product D is negative, and less than the bound for another.
C6_Witness ==
    /\ result.fn = "diffusion_coefficient"
    /\ result.v1 = FDiv(FMul(Frac(45, 100), FMul(dx, dx)), dt)
    /\ raw_D(arg[1]) < 0
    /\ 0 < result.v2
    /\ result.v2 < result.v1

\* C7.  fractional_flow never decreases over [Swc, 1 - Sor], is 0 at Swc, and
\* every value it returns lies in [0, 1).
C7_FractionalFlow ==
    result.fn = "fractional_flow" =>
        /\ 0 <= result.v1 /\ result.v1 < Q
        /\ 0 <= result.v2 /\ result.v2 < Q
        /\ (arg[1] = initial_water_saturation) => (result.v1 = 0)
        /\ (/\ initial_water_saturation <= arg[1]
            /\ arg[1] <= arg[2]
            /\ arg[2] <= Q - residual_oil_saturation) =>
               result.v1 <= result.v2

\* fractional_flow has returned a value in (0, 1) for a saturation inside
\* (Swc, 1 - Sor) and a larger value, still below 1, for 1 - Sor.
C7_Witness ==
    /\ result.fn = "fractional_flow"
    /\ initial_water_saturation < arg[1]
    /\ arg[1] < arg[2]
    /\ arg[2] = Q - residual_oil_saturation
    /\ 0 < result.v1
    /\ result.v1 < result.v2
    /\ result.v2 < Q

\* The field at the start of time step n: row n + 1 is as constructed.
StartOfStep(S, n) == [S EXCEPT ![n + 1] = InitField[n + 1]]

\* C8.  Whatever the order in which the interior nodes of a time step are
\* updated, every node updated so far holds the value the left-to-right loop
\* gives it, in both passes.
C8_OrderIndependent ==
    /\ (n_cap < nt - 1) =>
           \A i \in InteriorNodes \ todo_cap :
               Sw_with_cap[n_cap + 1][i] =
                   LoopCap(StartOfStep(Sw_with_cap, n_cap), n_cap, 1)
                       [n_cap + 1][i]
    /\ (n_nocap < nt - 1) =>
           \A i \in InteriorNodes \ todo_nocap :
               Sw_without_cap[n_nocap + 1][i] =
                   LoopNoCap(StartOfStep(Sw_without_cap, n_nocap), n_nocap, 1)
                       [n_nocap + 1][i]

\* In a late time step of the second pass every interior node but node 1 has
\* been updated, and node 2 has moved; the first pass has ended.
C8_Witness ==
    /\ CapDone
    /\ n_nocap = nt - 2
    /\ nx > 2
    /\ todo_nocap = {1}
    /\ Sw_without_cap[n_nocap + 1][2] # initial_water_saturation
    /\ Sw_with_cap[nt - 1][2] # initial_water_saturation

\* C9.  However the time steps of the two passes are interleaved, every row a
\* pass has completed equals the row of the field the sequential run leaves.
C9_PassesIndependent ==
    /\ \A n \in 0 .. n_cap : Sw_with_cap[n] = SequentialWithCap[n + 1]
    /\ \A n \in 0 .. n_nocap : Sw_without_cap[n] = SequentialWithoutCap[n + 1]

\* The second pass has ended before the first has begun, and has moved the
\* outlet.
C9_Witness ==
    /\ n_nocap = nt - 1
    /\ n_cap = 0
    /\ Sw_without_cap[nt - 1][nx] # initial_water_saturation

\* C10.  For every Sw in [Swc, 1 - Sor], capillary_pressure(Sw) is at most
\* max_pc = 3 * entry_pressure.
C10_CapillaryPressureWithinMax ==
    (/\ result.fn = "capillary_pressure"
     /\ initial_water_saturation <= arg[1]
     /\ arg[1] <= Q - residual_oil_saturation) =>
        result.v1 <= 3 * entry_pressure

====
